---- MODULE Spec2Model ----
(***************************************************************************)
(* Model of extract_stores.py: the embedded-JSON extraction of             *)
(* get_store_details, the trading-hours ordering of sort_trading_hours and *)
(* the thread-pool batch of main.                                          *)
(*                                                                         *)
(* A Python str is a sequence of one-character strings; Python indices are *)
(* kept 0-based as in the source, so the character at Python index i of s  *)
(* is s[i + 1].  A Python value is a record tagged by its type in field t. *)
(***************************************************************************)
EXTENDS Integers, Sequences, FiniteSets, TLC

(* ------------------------------------------------------------------ *)
(* Python values                                                       *)
(* ------------------------------------------------------------------ *)
PyNone == [t |-> "None"]
PyStr(s) == [t |-> "str", v |-> s]
PyInt(n) == [t |-> "int", v |-> n]
PyBool(b) == [t |-> "bool", v |-> b]
PyList(l) == [t |-> "list", v |-> l]
PyDict(d) == [t |-> "dict", v |-> d]

EmptyDict == [k \in {} |-> PyNone]

\* Python truth value of x, as tested by `if not location` and `if store_data`.
Truthy(x) ==
  CASE x.t = "None" -> FALSE
    [] x.t = "str" -> Len(x.v) > 0
    [] x.t = "int" -> x.v # 0
    [] x.t = "bool" -> x.v
    [] x.t = "list" -> Len(x.v) > 0
    [] x.t = "dict" -> DOMAIN x.v # {}

\* d[k] = v on a dict: a repeated key keeps the last value.
DictSet(d, k, v) == [x \in (DOMAIN d) \cup {k} |-> IF x = k THEN v ELSE d[x]]

(* ------------------------------------------------------------------ *)
(* str operations                                                      *)
(* ------------------------------------------------------------------ *)
Quote == "\""
Backslash == "\\"

SetMin(S) == CHOOSE x \in S : \A y \in S : x <= y

\* s.find(sub, start): the lowest 0-based index >= start at which sub
\* occurs in s, or -1.
Find(s, sub, start) ==
  LET hits == {i \in start..(Len(s) - Len(sub)) :
                 \A k \in 1..Len(sub) : s[i + k] = sub[k]}
  IN IF hits = {} THEN -1 ELSE SetMin(hits)

\* One bound of a slice: a negative index counts from the end, and the
\* index is clamped to 0..len.
ClampIndex(n, len) ==
  IF n < 0 THEN (IF n + len < 0 THEN 0 ELSE n + len)
  ELSE (IF n > len THEN len ELSE n)

\* s[a:b]
PySlice(s, a, b) ==
  SubSeq(s, ClampIndex(a, Len(s)) + 1, ClampIndex(b, Len(s)))

(* ------------------------------------------------------------------ *)
(* json.loads, on texts made of objects, arrays, strings with the      *)
(* escapes \" \\ \/, unsigned integers, null, true, false and blanks.  *)
(* ------------------------------------------------------------------ *)
Blanks == {" ", "\n", "\t", "\r"}
Digits == {"0", "1", "2", "3", "4", "5", "6", "7", "8", "9"}
DigitValue(c) ==
  CASE c = "0" -> 0 [] c = "1" -> 1 [] c = "2" -> 2 [] c = "3" -> 3
    [] c = "4" -> 4 [] c = "5" -> 5 [] c = "6" -> 6 [] c = "7" -> 7
    [] c = "8" -> 8 [] c = "9" -> 9

JsonFail == [ok |-> FALSE]
JsonOk(val, pos) == [ok |-> TRUE, val |-> val, pos |-> pos]

RECURSIVE SkipBlanks(_, _)
SkipBlanks(s, p) ==
  IF p <= Len(s) /\ s[p] \in Blanks THEN SkipBlanks(s, p + 1) ELSE p

\* The body of a string literal from position p (after the opening quote).
RECURSIVE ParseStringBody(_, _, _)
ParseStringBody(s, p, acc) ==
  IF p > Len(s) THEN JsonFail
  ELSE IF s[p] = Quote THEN JsonOk(acc, p + 1)
  ELSE IF s[p] = Backslash THEN
    IF p + 1 <= Len(s) /\ s[p + 1] \in {Quote, Backslash, "/"}
    THEN ParseStringBody(s, p + 2, Append(acc, s[p + 1]))
    ELSE JsonFail
  ELSE IF s[p] \in {"\n", "\t", "\r"} THEN JsonFail
  ELSE ParseStringBody(s, p + 1, Append(acc, s[p]))

RECURSIVE ParseDigits(_, _, _)
ParseDigits(s, p, acc) ==
  IF p <= Len(s) /\ s[p] \in Digits
  THEN ParseDigits(s, p + 1, acc * 10 + DigitValue(s[p]))
  ELSE JsonOk(PyInt(acc), p)

Literal(s, p, word, val) ==
  IF p + Len(word) - 1 <= Len(s) /\ SubSeq(s, p, p + Len(word) - 1) = word
  THEN JsonOk(val, p + Len(word)) ELSE JsonFail

RECURSIVE ParseValue(_, _)
RECURSIVE ParseMembers(_, _, _)
RECURSIVE ParseElements(_, _, _)

\* One value starting at position p (blanks already skipped).
ParseValue(s, p) ==
  IF p > Len(s) THEN JsonFail
  ELSE IF s[p] = Quote THEN
    LET r == ParseStringBody(s, p + 1, <<>>)
    IN IF r.ok THEN JsonOk(PyStr(r.val), r.pos) ELSE JsonFail
  ELSE IF s[p] = "{" THEN
    LET q == SkipBlanks(s, p + 1)
    IN IF q <= Len(s) /\ s[q] = "}" THEN JsonOk(PyDict(EmptyDict), q + 1)
       ELSE ParseMembers(s, q, EmptyDict)
  ELSE IF s[p] = "[" THEN
    LET q == SkipBlanks(s, p + 1)
    IN IF q <= Len(s) /\ s[q] = "]" THEN JsonOk(PyList(<<>>), q + 1)
       ELSE ParseElements(s, q, <<>>)
  ELSE IF s[p] = "n" THEN Literal(s, p, <<"n", "u", "l", "l">>, PyNone)
  ELSE IF s[p] = "t" THEN Literal(s, p, <<"t", "r", "u", "e">>, PyBool(TRUE))
  ELSE IF s[p] = "f" THEN
    Literal(s, p, <<"f", "a", "l", "s", "e">>, PyBool(FALSE))
  ELSE IF s[p] = "0" THEN JsonOk(PyInt(0), p + 1)
  ELSE IF s[p] \in Digits THEN ParseDigits(s, p, 0)
  ELSE JsonFail

\* The members of an object from position p, which must hold a key.
ParseMembers(s, p, d) ==
  IF p > Len(s) \/ s[p] # Quote THEN JsonFail
  ELSE
    LET k == ParseStringBody(s, p + 1, <<>>)
    IN IF ~k.ok THEN JsonFail
       ELSE
         LET c == SkipBlanks(s, k.pos)
         IN IF c > Len(s) \/ s[c] # ":" THEN JsonFail
            ELSE
              LET r == ParseValue(s, SkipBlanks(s, c + 1))
              IN IF ~r.ok THEN JsonFail
                 ELSE
                   LET e == SkipBlanks(s, r.pos)
                       d2 == DictSet(d, k.val, r.val)
                   IN IF e > Len(s) THEN JsonFail
                      ELSE IF s[e] = "}" THEN JsonOk(PyDict(d2), e + 1)
                      ELSE IF s[e] = ","
                        THEN ParseMembers(s, SkipBlanks(s, e + 1), d2)
                      ELSE JsonFail

\* The elements of an array from position p, which must hold a value.
ParseElements(s, p, l) ==
  LET r == ParseValue(s, p)
  IN IF ~r.ok THEN JsonFail
     ELSE
       LET e == SkipBlanks(s, r.pos)
           l2 == Append(l, r.val)
       IN IF e > Len(s) THEN JsonFail
          ELSE IF s[e] = "]" THEN JsonOk(PyList(l2), e + 1)
          ELSE IF s[e] = ","
            THEN ParseElements(s, SkipBlanks(s, e + 1), l2)
          ELSE JsonFail

\* json.loads(s): [ok |-> TRUE, val |-> the value], or [ok |-> FALSE] where
\* json.loads raises JSONDecodeError (no value, or extra data after it).
JsonLoads(s) ==
  LET r == ParseValue(s, SkipBlanks(s, 1))
  IN IF ~r.ok THEN [ok |-> FALSE]
     ELSE IF SkipBlanks(s, r.pos) <= Len(s) THEN [ok |-> FALSE]
     ELSE [ok |-> TRUE, val |-> r.val]

(* ------------------------------------------------------------------ *)
(* Literals of the source                                              *)
(* ------------------------------------------------------------------ *)
s_props == <<"p", "r", "o", "p", "s">>
s_pageProps == <<"p", "a", "g", "e", "P", "r", "o", "p", "s">>
s_location == <<"l", "o", "c", "a", "t", "i", "o", "n">>
s_locationId == <<"l", "o", "c", "a", "t", "i", "o", "n", "I", "d">>
s_publicName == <<"p", "u", "b", "l", "i", "c", "N", "a", "m", "e">>
s_phoneNumber == <<"p", "h", "o", "n", "e", "N", "u", "m", "b", "e", "r">>
s_address1 == <<"a", "d", "d", "r", "e", "s", "s", "1">>
s_address2 == <<"a", "d", "d", "r", "e", "s", "s", "2">>
s_address3 == <<"a", "d", "d", "r", "e", "s", "s", "3">>
s_city == <<"c", "i", "t", "y">>
s_state == <<"s", "t", "a", "t", "e">>
s_postcode == <<"p", "o", "s", "t", "c", "o", "d", "e">>
s_latitude == <<"l", "a", "t", "i", "t", "u", "d", "e">>
s_longitude == <<"l", "o", "n", "g", "i", "t", "u", "d", "e">>
s_tradingHours == <<"t", "r", "a", "d", "i", "n", "g", "H", "o", "u", "r", "s">>
s_typename == <<"t", "y", "p", "e", "n", "a", "m", "e">>
s___typename == <<"_", "_", "t", "y", "p", "e", "n", "a", "m", "e">>
s_url == <<"u", "r", "l">>
s_weekDay == <<"w", "e", "e", "k", "D", "a", "y">>
s_MONDAY == <<"M", "O", "N", "D", "A", "Y">>
s_TUESDAY == <<"T", "U", "E", "S", "D", "A", "Y">>
s_WEDNESDAY == <<"W", "E", "D", "N", "E", "S", "D", "A", "Y">>
s_THURSDAY == <<"T", "H", "U", "R", "S", "D", "A", "Y">>
s_FRIDAY == <<"F", "R", "I", "D", "A", "Y">>
s_SATURDAY == <<"S", "A", "T", "U", "R", "D", "A", "Y">>
s_SUNDAY == <<"S", "U", "N", "D", "A", "Y">>

\* '"__NEXT_DATA__":'
primary_marker ==
  <<"\"", "_", "_", "N", "E", "X", "T", "_", "D", "A", "T", "A", "_", "_",
    "\"", ":">>
\* 'id="__NEXT_DATA__"'
alternate_marker ==
  <<"i", "d", "=", "\"", "_", "_", "N", "E", "X", "T", "_", "D", "A", "T",
    "A", "_", "_", "\"">>
\* '</script>'
script_close == <<"<", "/", "s", "c", "r", "i", "p", "t", ">">>

(* ------------------------------------------------------------------ *)
(* get_store_details                                                   *)
(* ------------------------------------------------------------------ *)

\* What urlopen(url).read().decode() yields: the page text, URLError or
\* HTTPError, or another exception (a timeout while reading, undecodable
\* bytes, a URL that is not a str).
FetchedPage(text) == [t |-> "ok", html |-> text]
FetchURLError == [t |-> "URLError"]
FetchOtherError == [t |-> "Exception"]

\* What a call returns, with the return statement or handler it left by:
\* "no_marker" (line 45), "no_location" (line 86), "store_data" (line 105),
\* "URLError" (line 107), "JSONDecodeError" (line 110), "Exception" (113).
Returned(via, val) == [via |-> via, val |-> val]

\* Locate without the return of line 45: a text with neither marker goes
\* on to the slice.
Locate_NoEarlyReturn(text) ==
  LET p == Find(text, primary_marker, 0)
      a == Find(text, alternate_marker, 0)
      s == IF a = -1 THEN 0 ELSE Find(text, <<">">>, a) + 1
  IN IF p = -1
     THEN [branch |-> "alt", start_idx |-> s,
           end_idx |-> Find(text, script_close, s)]
     ELSE [branch |-> "primary", start_idx |-> p + Len(primary_marker),
           end_idx |-> p + Len(primary_marker)]

\* Lines 37-55: the marker search and the start and end index it leaves.
Locate(text) ==
  LET p == Find(text, primary_marker, 0)
      a == Find(text, alternate_marker, 0)
  IN IF p = -1 THEN
       IF a = -1 THEN [branch |-> "none", start_idx |-> -1, end_idx |-> -1]
       ELSE
         LET s == Find(text, <<">">>, a) + 1
         IN [branch |-> "alt", start_idx |-> s,
             end_idx |-> Find(text, script_close, s)]
     ELSE [branch |-> "primary", start_idx |-> p + Len(primary_marker),
           end_idx |-> p + Len(primary_marker)]

\* The scanner's locals on entry to the loop (lines 52-55).
ScanStart(s) ==
  [brace_count |-> 0, in_string |-> FALSE, escape_next |-> FALSE,
   end_idx |-> s, broke |-> FALSE]

\* ScanChar with the escape flag never set: a backslash is an ordinary
\* character.
ScanChar_NoEscape(sc, idx, char) ==
  IF char = Quote THEN [sc EXCEPT !.in_string = ~sc.in_string]
  ELSE IF ~sc.in_string THEN
    IF char = "{" THEN [sc EXCEPT !.brace_count = sc.brace_count + 1]
    ELSE IF char = "}" THEN
      IF sc.brace_count - 1 = 0
      THEN [sc EXCEPT !.brace_count = 0, !.end_idx = idx + 1,
                      !.broke = TRUE]
      ELSE [sc EXCEPT !.brace_count = sc.brace_count - 1]
    ELSE sc
  ELSE sc

\* ScanChar with end_idx moved at every closing brace, not only at the one
\* that brings the depth to zero.
ScanChar_EndAtAnyBrace(sc, idx, char) ==
  IF sc.escape_next THEN [sc EXCEPT !.escape_next = FALSE]
  ELSE IF char = Backslash THEN [sc EXCEPT !.escape_next = TRUE]
  ELSE IF char = Quote THEN [sc EXCEPT !.in_string = ~sc.in_string]
  ELSE IF ~sc.in_string THEN
    IF char = "{" THEN [sc EXCEPT !.brace_count = sc.brace_count + 1]
    ELSE IF char = "}" THEN
      IF sc.brace_count - 1 = 0
      THEN [sc EXCEPT !.brace_count = 0, !.end_idx = idx + 1,
                      !.broke = TRUE]
      ELSE [sc EXCEPT !.brace_count = sc.brace_count - 1,
                      !.end_idx = idx + 1]
    ELSE sc
  ELSE sc

\* ScanChar without line 59: the escape flag, once set, is never cleared
\* and every later character is skipped.
ScanChar_StickyEscape(sc, idx, char) ==
  IF sc.escape_next THEN sc
  ELSE IF char = Backslash THEN [sc EXCEPT !.escape_next = TRUE]
  ELSE IF char = Quote THEN [sc EXCEPT !.in_string = ~sc.in_string]
  ELSE IF ~sc.in_string THEN
    IF char = "{" THEN [sc EXCEPT !.brace_count = sc.brace_count + 1]
    ELSE IF char = "}" THEN
      IF sc.brace_count - 1 = 0
      THEN [sc EXCEPT !.brace_count = 0, !.end_idx = idx + 1,
                      !.broke = TRUE]
      ELSE [sc EXCEPT !.brace_count = sc.brace_count - 1]
    ELSE sc
  ELSE sc

\* Lines 58-77: one iteration of the loop, on the character char at index
\* idx; broke is set where the loop leaves by break.
ScanChar(sc, idx, char) ==
  IF sc.escape_next THEN [sc EXCEPT !.escape_next = FALSE]
  ELSE IF char = Backslash THEN [sc EXCEPT !.escape_next = TRUE]
  ELSE IF char = Quote /\ ~sc.escape_next
    THEN [sc EXCEPT !.in_string = ~sc.in_string]
  ELSE IF ~sc.in_string THEN
    IF char = "{" THEN [sc EXCEPT !.brace_count = sc.brace_count + 1]
    ELSE IF char = "}" THEN
      IF sc.brace_count - 1 = 0
      THEN [sc EXCEPT !.brace_count = 0, !.end_idx = idx + 1,
                      !.broke = TRUE]
      ELSE [sc EXCEPT !.brace_count = sc.brace_count - 1]
    ELSE sc
  ELSE sc

\* Line 57: the iterations on the characters at indices lo .. hi - 1 in
\* order, up to the break; the range is halved to keep the evaluation
\* shallow.
RECURSIVE ScanRange(_, _, _, _)
ScanRange(text, lo, hi, sc) ==
  IF sc.broke \/ lo >= hi THEN sc
  ELSE IF hi = lo + 1 THEN ScanChar(sc, lo, text[lo + 1])
  ELSE
    LET mid == (lo + hi) \div 2
        left == ScanRange(text, lo, mid, sc)
    IN IF left.broke THEN left ELSE ScanRange(text, mid, hi, left)

\* Line 57: the loop over text[start_idx:], from index idx on.
ScanLoop(text, idx, sc) == ScanRange(text, idx, Len(text), sc)

\* d.get(k, default)
DictGet(d, k, default) == IF k \in DOMAIN d THEN d[k] ELSE default

\* The keys of store_data (lines 89-102).
StoreKeys ==
  {s_locationId, s_publicName, s_phoneNumber, s_address1, s_address2,
   s_address3, s_city, s_state, s_postcode, s_latitude, s_longitude,
   s_tradingHours, s_typename, s_url}

\* StoreData keeping only the fields the location holds: an absent field is
\* an omitted key.
StoreData_OmitMissing(location, u) ==
  [k \in {x \in StoreKeys :
            x = s_url \/ (x = s_typename /\ s___typename \in DOMAIN location)
            \/ (x # s_typename /\ x \in DOMAIN location)} |->
     IF k = s_url THEN PyStr(u)
     ELSE IF k = s_typename THEN location[s___typename]
     ELSE location[k]]

\* Lines 88-103: the record built from the location object.
StoreData(location, u) ==
  [k \in StoreKeys |->
     IF k = s_url THEN PyStr(u)
     ELSE IF k = s_typename THEN DictGet(location, s___typename, PyNone)
     ELSE DictGet(location, k, PyNone)]

\* x.get(k, {}) of line 83: [ok |-> FALSE] where x is no dict and the call
\* raises AttributeError.
GetOrEmpty(x, k) ==
  IF x.t # "dict" THEN [ok |-> FALSE]
  ELSE [ok |-> TRUE, val |-> DictGet(x.v, k, PyDict(EmptyDict))]

\* ExtractRecord taking a location that is no object for an object without
\* fields: a record of nulls is built from it.
ExtractRecord_RecordForNonObject(u, candidate) ==
  LET parsed == JsonLoads(candidate)
  IN IF ~parsed.ok THEN Returned("JSONDecodeError", PyNone)
     ELSE
       LET props == GetOrEmpty(parsed.val, s_props)
       IN IF ~props.ok THEN Returned("Exception", PyNone)
          ELSE
            LET pageProps == GetOrEmpty(props.val, s_pageProps)
            IN IF ~pageProps.ok THEN Returned("Exception", PyNone)
               ELSE
                 LET location == GetOrEmpty(pageProps.val, s_location)
                 IN IF ~location.ok THEN Returned("Exception", PyNone)
                    ELSE IF ~Truthy(location.val)
                      THEN Returned("no_location", PyNone)
                    ELSE IF location.val.t # "dict"
                      THEN Returned("store_data",
                                    PyDict(StoreData(EmptyDict, u)))
                    ELSE Returned("store_data",
                                  PyDict(StoreData(location.val.v, u)))

\* ExtractRecord with the test of line 85 only for a location that is
\* None: an empty location object goes on to lines 88-103.
ExtractRecord_EmptyLocationKept(u, candidate) ==
  LET parsed == JsonLoads(candidate)
  IN IF ~parsed.ok THEN Returned("JSONDecodeError", PyNone)
     ELSE
       LET props == GetOrEmpty(parsed.val, s_props)
       IN IF ~props.ok THEN Returned("Exception", PyNone)
          ELSE
            LET pageProps == GetOrEmpty(props.val, s_pageProps)
            IN IF ~pageProps.ok THEN Returned("Exception", PyNone)
               ELSE
                 LET location == GetOrEmpty(pageProps.val, s_location)
                 IN IF ~location.ok THEN Returned("Exception", PyNone)
                    ELSE IF location.val = PyNone
                      THEN Returned("no_location", PyNone)
                    ELSE IF location.val.t # "dict"
                      THEN Returned("Exception", PyNone)
                    ELSE Returned("store_data",
                                  PyDict(StoreData(location.val.v, u)))

\* Lines 80-105 and the handlers of lines 110-115, on the candidate text.
ExtractRecord(u, candidate) ==
  LET parsed == JsonLoads(candidate)
  IN IF ~parsed.ok THEN Returned("JSONDecodeError", PyNone)
     ELSE
       LET props == GetOrEmpty(parsed.val, s_props)
       IN IF ~props.ok THEN Returned("Exception", PyNone)
          ELSE
            LET pageProps == GetOrEmpty(props.val, s_pageProps)
            IN IF ~pageProps.ok THEN Returned("Exception", PyNone)
               ELSE
                 LET location == GetOrEmpty(pageProps.val, s_location)
                 IN IF ~location.ok THEN Returned("Exception", PyNone)
                    ELSE IF ~Truthy(location.val)
                      THEN Returned("no_location", PyNone)
                    ELSE IF location.val.t # "dict"
                      THEN Returned("Exception", PyNone)
                    ELSE Returned("store_data",
                                  PyDict(StoreData(location.val.v, u)))

\* Lines 37-79: the candidate text of a page that holds a marker.
Candidate(text) ==
  LET loc == Locate(text)
      sc == ScanLoop(text, loc.start_idx, ScanStart(loc.start_idx))
  IN IF loc.branch = "primary"
     THEN PySlice(text, loc.start_idx, sc.end_idx)
     ELSE PySlice(text, loc.start_idx, loc.end_idx)

\* get_store_details(url), given what the fetch of url yields.
GetStoreDetails(u, fetched) ==
  IF fetched.t = "URLError" THEN Returned("URLError", PyNone)
  ELSE IF fetched.t = "Exception" THEN Returned("Exception", PyNone)
  ELSE IF Locate(fetched.html).branch = "none"
    THEN Returned("no_marker", PyNone)
  ELSE ExtractRecord(u, Candidate(fetched.html))

(* ------------------------------------------------------------------ *)
(* sorted(..., key=...)                                                *)
(* ------------------------------------------------------------------ *)

\* The printable ASCII characters in code-point order, from the blank (32);
\* "grave" holds the place of the grave accent (96), which no text of the
\* model contains.
Ascii ==
  <<
    " ", "!", "\"", "#", "$", "%", "&", "'", "(", ")", "*", "+",
    ",", "-", ".", "/", "0", "1", "2", "3", "4", "5", "6", "7",
    "8", "9", ":", ";", "<", "=", ">", "?", "@", "A", "B", "C",
    "D", "E", "F", "G", "H", "I", "J", "K", "L", "M", "N", "O",
    "P", "Q", "R", "S", "T", "U", "V", "W", "X", "Y", "Z", "[",
    "\\", "]", "^", "_", "grave", "a", "b", "c", "d", "e", "f", "g",
    "h", "i", "j", "k", "l", "m", "n", "o", "p", "q", "r", "s",
    "t", "u", "v", "w", "x", "y", "z", "{", "|", "}", "~"
  >>

\* ord(c)
Ord(c) == 31 + CHOOSE n \in 1..Len(Ascii) : Ascii[n] = c

\* a < b on str: by code point, a proper prefix first.
RECURSIVE StrLt(_, _)
StrLt(a, b) ==
  IF b = <<>> THEN FALSE
  ELSE IF a = <<>> THEN TRUE
  ELSE IF Head(a) = Head(b) THEN StrLt(Tail(a), Tail(b))
  ELSE Ord(Head(a)) < Ord(Head(b))

\* The values `<` orders among themselves: numbers (bool is an int), and
\* str.  `<` between any other two values raises TypeError.
KeyClass(x) ==
  IF x.t \in {"int", "bool"} THEN "number"
  ELSE IF x.t = "str" THEN "str"
  ELSE "unordered"

NumberOf(x) == IF x.t = "bool" THEN (IF x.v THEN 1 ELSE 0) ELSE x.v

Comparable(a, b) == KeyClass(a) = KeyClass(b) /\ KeyClass(a) # "unordered"

\* a < b where it raises nothing.
KeyLt(a, b) ==
  IF KeyClass(a) = "str" THEN StrLt(a.v, b.v)
  ELSE NumberOf(a) < NumberOf(b)

\* InsertPair placing p before the elements of an equal key: an unstable
\* sort.
InsertPair_BeforeEqual(done, p) ==
  LET later == {j \in 1..Len(done) : ~KeyLt(done[j].key, p.key)}
      at == IF later = {} THEN Len(done) + 1 ELSE SetMin(later)
  IN SubSeq(done, 1, at - 1) \o <<p>> \o SubSeq(done, at, Len(done))

\* One insertion of a stable sort: p goes before the first element whose
\* key is greater than p's, so after every element of an equal key.
InsertPair(done, p) ==
  LET later == {j \in 1..Len(done) : KeyLt(p.key, done[j].key)}
      at == IF later = {} THEN Len(done) + 1 ELSE SetMin(later)
  IN SubSeq(done, 1, at - 1) \o <<p>> \o SubSeq(done, at, Len(done))

RECURSIVE SortPairs(_, _)
SortPairs(pairs, n) ==
  IF n = 0 THEN <<>> ELSE InsertPair(SortPairs(pairs, n - 1), pairs[n])

\* sorted(items, key=...), keys[j] being the key of items[j]: the stable
\* ascending order, or [ok |-> FALSE] where a comparison raises TypeError
\* (two or more items whose keys `<` does not order).
PySorted(items, keys) ==
  LET n == Len(items)
      pairs == [j \in 1..n |-> [key |-> keys[j], val |-> items[j]]]
      out == SortPairs(pairs, n)
  IN IF \E a, b \in 1..n : a # b /\ ~Comparable(keys[a], keys[b])
     THEN [ok |-> FALSE]
     ELSE [ok |-> TRUE, val |-> [j \in 1..n |-> out[j].val]]

(* ------------------------------------------------------------------ *)
(* sort_trading_hours                                                  *)
(* ------------------------------------------------------------------ *)

\* Lines 120-128.
day_order ==
  (s_MONDAY :> 0) @@ (s_TUESDAY :> 1) @@ (s_WEDNESDAY :> 2) @@
  (s_THURSDAY :> 3) @@ (s_FRIDAY :> 4) @@ (s_SATURDAY :> 5) @@
  (s_SUNDAY :> 6)

\* Line 131: day_order.get(x.get('weekDay', ''), 7) on a dict x.
DayRank(x) ==
  LET weekDay == DictGet(x.v, s_weekDay, PyStr(<<>>))
  IN IF weekDay.t = "str" /\ weekDay.v \in DOMAIN day_order
     THEN day_order[weekDay.v] ELSE 7

\* Whether the key function of line 131 raises on entry x: x has no get
\* (AttributeError), or its weekDay is unhashable (TypeError).
DayRankRaises(x) ==
  \/ x.t # "dict"
  \/ DictGet(x.v, s_weekDay, PyStr(<<>>)).t \in {"list", "dict"}

\* sort_trading_hours(store_data): [ok |-> TRUE, val |-> the record], or
\* [ok |-> FALSE] where it raises.
SortTradingHours(store_data) ==
  IF ~(Truthy(store_data) /\ s_tradingHours \in DOMAIN store_data.v
       /\ Truthy(store_data.v[s_tradingHours]))
  THEN [ok |-> TRUE, val |-> store_data]
  ELSE
    LET hours == store_data.v[s_tradingHours]
    IN IF hours.t # "list" THEN [ok |-> FALSE]
       ELSE IF \E j \in 1..Len(hours.v) : DayRankRaises(hours.v[j])
         THEN [ok |-> FALSE]
       ELSE
         LET ranks == [j \in 1..Len(hours.v) |-> PyInt(DayRank(hours.v[j]))]
             ordered == PySorted(hours.v, ranks)
         IN [ok |-> TRUE,
             val |-> PyDict([store_data.v EXCEPT
                               ![s_tradingHours] = PyList(ordered.val)])]

(* ------------------------------------------------------------------ *)
(* The pages the model serves                                          *)
(* ------------------------------------------------------------------ *)

\* The JSON text of a value, as the site embeds it (no blanks).
DigitChar(d) == Ascii[d + 17]

RECURSIVE RenderNat(_)
RenderNat(n) ==
  IF n < 10 THEN <<DigitChar(n)>>
  ELSE RenderNat(n \div 10) \o <<DigitChar(n % 10)>>

RECURSIVE EscapeStr(_)
EscapeStr(s) ==
  IF s = <<>> THEN <<>>
  ELSE (IF Head(s) \in {Quote, Backslash} THEN <<Backslash, Head(s)>>
        ELSE <<Head(s)>>) \o EscapeStr(Tail(s))

RenderStr(s) == <<Quote>> \o EscapeStr(s) \o <<Quote>>

RECURSIVE Render(_)
RECURSIVE RenderItems(_)
RECURSIVE RenderMembers(_, _)
Render(x) ==
  CASE x.t = "None" -> <<"n", "u", "l", "l">>
    [] x.t = "bool" -> IF x.v THEN <<"t", "r", "u", "e">>
                       ELSE <<"f", "a", "l", "s", "e">>
    [] x.t = "int" -> RenderNat(x.v)
    [] x.t = "str" -> RenderStr(x.v)
    [] x.t = "list" -> <<"[">> \o RenderItems(x.v) \o <<"]">>
    [] x.t = "dict" -> <<"{">> \o RenderMembers(x.v, DOMAIN x.v) \o <<"}">>
RenderItems(l) ==
  IF l = <<>> THEN <<>>
  ELSE Render(Head(l)) \o
       (IF Len(l) > 1 THEN <<",">> ELSE <<>>) \o RenderItems(Tail(l))
RenderMembers(d, keys) ==
  IF keys = {} THEN <<>>
  ELSE
    LET k == CHOOSE x \in keys : TRUE
    IN RenderStr(k) \o <<":">> \o Render(d[k]) \o
       (IF keys # {k} THEN <<",">> ELSE <<>>) \o
       RenderMembers(d, keys \ {k})

\* A page that embeds doc after the primary marker, and one that embeds it
\* in a script element carrying the alternate marker.
PrimaryPage(doc) ==
  <<"<", "{">> \o primary_marker \o Render(doc) \o <<",", "}", ">">>
AlternatePage(doc) ==
  <<"<">> \o alternate_marker \o <<">">> \o Render(doc) \o script_close

DocOf(location) ==
  PyDict(s_props :> PyDict(s_pageProps :> PyDict(s_location :> location)))

HoursEntry(day, n) ==
  PyDict((s_weekDay :> PyStr(day)) @@ (<<"n">> :> PyInt(n)))

LocationOf(id, name, hours) ==
  PyDict((s_locationId :> id) @@ (s_publicName :> PyStr(name)) @@
         (s_tradingHours :> hours))

WeekendFirst == PyList(<<HoursEntry(s_SUNDAY, 1), HoursEntry(s_MONDAY, 2)>>)

\* The store URLs of the site, in the order the sitemap lists them.
SiteUrls ==
  << <<"/", "e">>, <<"/", "m">>, <<"/", "j">>, <<"/", "b">>, <<"/", "a">>,
     <<"/", "c">>, <<"/", "d">>, <<"/", "f">>, <<"/", "n">>, <<"/", "g">>,
     <<"/", "h">>, <<"/", "i">>, <<"/", "k">>, <<"/", "l">> >>

\* What the fetch of each URL yields.
Web(u) ==
  CASE u = <<"/", "b">> ->
         FetchedPage(PrimaryPage(DocOf(
           LocationOf(PyStr(<<"2", "0">>), <<"B", "}">>, WeekendFirst))))
    [] u = <<"/", "a">> ->
         FetchedPage(PrimaryPage(DocOf(
           LocationOf(PyStr(<<"1", "0">>), <<"A">>, PyNone))))
    [] u = <<"/", "c">> ->
         FetchedPage(AlternatePage(DocOf(
           LocationOf(PyStr(<<"1", "0">>), <<"C">>, PyList(<<>>)))))
    [] u = <<"/", "d">> ->
         FetchedPage(PrimaryPage(DocOf(
           LocationOf(PyNone, <<"D">>, PyNone))))
    [] u = <<"/", "e">> -> FetchURLError
    [] u = <<"/", "f">> ->
         FetchedPage(PrimaryPage(DocOf(
           LocationOf(PyInt(7), <<"F">>, PyNone))))
    [] u = <<"/", "g">> -> FetchedPage(<<"<", "h", "1", ">">>)
    [] u = <<"/", "h">> ->
         FetchedPage(<<"<">> \o primary_marker \o
                     <<"{", Quote, "p", Quote, ":", "{", "}">>)
    [] u = <<"/", "i">> ->
         FetchedPage(PrimaryPage(PyDict(s_props :> PyDict(EmptyDict))))
    [] u = <<"/", "j">> ->
         FetchedPage(PrimaryPage(DocOf(
           LocationOf(PyStr(<<"3", "0">>), <<"J">>,
                      PyList(<<PyStr(s_MONDAY)>>)))))
    [] u = <<"/", "k">> ->
         FetchedPage(<<"<">> \o primary_marker \o <<"{", "p", "}">>)
    [] u = <<"/", "l">> -> FetchOtherError
    [] u = <<"/", "m">> ->
         FetchedPage(PrimaryPage(DocOf(
           LocationOf(PyStr(<<"4", "0">>), <<"M">>, PyStr(s_MONDAY)))))
    [] u = <<"/", "n">> ->
         FetchedPage(PrimaryPage(DocOf(PyDict(EmptyDict))))

(* ------------------------------------------------------------------ *)
(* Bounds and the inputs drawn within them                             *)
(* ------------------------------------------------------------------ *)
MaxUrls == 4
MaxWorkers == 2
MaxStrItems == 2
MaxHours == 3

\* The sitemaps: up to MaxUrls consecutive URLs of the site.
Sitemaps ==
  {SubSeq(SiteUrls, a, b) :
     a \in 1..Len(SiteUrls), b \in 0..Len(SiteUrls)}

SitemapFiles ==
  {[state |-> "missing"], [state |-> "malformed"]} \cup
  {[state |-> "ok", locs |-> l] :
     l \in {s \in Sitemaps : Len(s) <= MaxUrls}}

\* String literals whose bodies are up to MaxStrItems of: a letter, a
\* brace, an escaped quote, an escaped backslash.
StrItems ==
  {<<"a">>, <<"{">>, <<"}">>, <<Backslash, Quote>>, <<Backslash, Backslash>>}

RECURSIVE StrBodies(_)
StrBodies(n) ==
  IF n = 0 THEN {<<>>}
  ELSE LET shorter == StrBodies(n - 1)
       IN shorter \cup {b \o x : b \in shorter, x \in StrItems}

StringLiterals == {<<Quote>> \o b \o <<Quote>> : b \in StrBodies(MaxStrItems)}

ObjectOf(k, v) == <<"{", Quote, k, Quote, ":">> \o v \o <<"}">>
ObjectOf2(v, w) ==
  <<"{", Quote, "a", Quote, ":">> \o v \o <<",", Quote, "b", Quote, ":">>
  \o w \o <<"}">>

\* '{"a":"}\"}","b":{"c":1}}'
NestedExample ==
  ObjectOf2(<<Quote, "}", Backslash, Quote, "}", Quote>>,
            ObjectOf("c", <<"1">>))

FlatObjects ==
  {<<"{", "}">>} \cup {ObjectOf("a", v) : v \in StringLiterals \cup {<<"1">>}}

ObjectTexts ==
  FlatObjects \cup {ObjectOf("a", o) : o \in FlatObjects}
  \cup {ObjectOf2(s, o) : s \in StringLiterals,
                          o \in {<<"{", "}">>, ObjectOf("c", <<"1">>)}}
  \cup {NestedExample}

\* What follows the object in the page.
TailTexts == {<<>>, <<"}">>, <<Quote, "}">>, <<",", "{", "}">>}

Prefixes(s) == {SubSeq(s, 1, n) : n \in 0..Len(s)}

\* Page texts for the scan: after the primary marker, an object and a
\* tail, cut off anywhere; texts with no marker; texts with the alternate
\* marker.
PrimaryTexts ==
  {<<"<">> \o primary_marker \o b :
     b \in UNION {Prefixes(o \o tl) : o \in ObjectTexts, tl \in TailTexts}}

NoMarkerHeads ==
  {<<>>, <<"<", ">">>, SubSeq(primary_marker, 1, Len(primary_marker) - 1),
   Tail(alternate_marker), <<"<", "/", "s", "c", "r", "i", "p", "t", ">">>}

NoMarkerTexts ==
  {h \o b : h \in NoMarkerHeads, b \in {<<>>, <<"{", "}">>, NestedExample}}

AlternateTexts ==
  {h \o alternate_marker \o m \o b \o e :
     h \in {<<>>, <<"<">>}, m \in {<<>>, <<">">>},
     b \in {<<"{", "}">>, ObjectOf("a", <<"1">>)},
     e \in {<<>>, script_close, script_close \o script_close}}
  \cup {<<"<">> \o alternate_marker \o <<":", "{", "}">>}
  \cup {<<"<">> \o alternate_marker \o <<">">>
          \o Render(DocOf(PyDict(s_locationId :> PyInt(5)))) \o <<"x">>,
        Render(DocOf(PyDict(s_locationId :> PyInt(5)))) \o script_close
          \o <<"<">> \o alternate_marker}

ScanTexts == PrimaryTexts \cup NoMarkerTexts \cup AlternateTexts

\* A location with every source field, and one with only some of them.
FullLocation ==
  PyDict([k \in (StoreKeys \ {s_url, s_typename}) \cup {s___typename}
            |-> IF k = s_tradingHours THEN WeekendFirst
                ELSE IF k = s_latitude THEN PyInt(3)
                ELSE PyStr(<<"v">>)])
PartLocation ==
  PyDict((s_locationId :> PyInt(5)) @@ (s_address1 :> PyStr(<<"v">>)) @@
         (s_address3 :> PyNone) @@ (s_url :> PyStr(<<"w">>)))

\* Values that are no object, and documents in which a segment of the path
\* props.pageProps.location is absent or is such a value.
NonObjects ==
  {PyNone, PyList(<<>>), PyList(<<PyInt(1)>>), PyStr(<<>>), PyStr(<<"a">>),
   PyInt(0), PyInt(1), PyBool(TRUE), PyBool(FALSE)}

BrokenPathDocs ==
  NonObjects
  \cup {PyDict(EmptyDict), PyDict(<<"a">> :> PyInt(1)),
        PyDict(s_props :> PyDict(EmptyDict)),
        PyDict(s_props :> PyDict(s_pageProps :> PyDict(EmptyDict))),
        PyDict(s_props :> PyDict(s_pageProps
                                   :> PyDict(s_locationId :> PyInt(1))))}
  \cup {PyDict(s_props :> x) : x \in NonObjects}
  \cup {PyDict(s_props :> PyDict(s_pageProps :> x)) : x \in NonObjects}
  \cup {DocOf(x) : x \in NonObjects}

BrokenPathPages ==
  {AlternatePage(d) : d \in BrokenPathDocs}
  \cup {PrimaryPage(d) : d \in {x \in BrokenPathDocs : x.t = "dict"}}

ScanFetches ==
  {FetchedPage(x) : x \in ScanTexts \cup BrokenPathPages}
  \cup {FetchURLError, FetchOtherError}
  \cup {Web(SiteUrls[k]) : k \in 1..Len(SiteUrls)}
  \cup {FetchedPage(PrimaryPage(DocOf(FullLocation))),
        FetchedPage(AlternatePage(DocOf(PartLocation)))}

\* tradingHours entries and lists for sort_trading_hours.
HoursEntries ==
  {HoursEntry(d, n) :
     d \in {s_MONDAY, s_WEDNESDAY, s_SUNDAY, <<"F", "U", "N", "D", "A", "Y">>},
     n \in 1..2}
  \cup {PyDict(<<"n">> :> PyInt(1)), PyDict(s_weekDay :> PyNone)}

RECURSIVE SeqsUpTo(_, _)
SeqsUpTo(S, n) ==
  IF n = 0 THEN {<<>>}
  ELSE LET shorter == SeqsUpTo(S, n - 1)
       IN shorter \cup {Append(l, x) : l \in shorter, x \in S}

HoursValues ==
  {PyList(l) : l \in SeqsUpTo(HoursEntries, MaxHours)}
  \cup {PyNone, PyStr(s_MONDAY), PyInt(9), PyDict(s_weekDay :> PyStr(s_MONDAY)),
        PyList(<<HoursEntry(s_SUNDAY, 1), PyStr(s_MONDAY)>>),
        PyList(<<HoursEntry(s_SUNDAY, 1), PyDict(s_weekDay :> PyList(<<>>))>>)}

(* ------------------------------------------------------------------ *)
(* State                                                               *)
(* ------------------------------------------------------------------ *)
VARIABLES
  \* one call of get_store_details, step by step
  url, fetched, html, start_idx, end_idx, i, brace_count, in_string,
  escape_next, json_str, result, pc,
  \* one record passed to sort_trading_hours
  hours_in, store_data, calls, raised,
  \* main
  sitemap, workers, urls, task, future, collected, all_stores, errors,
  all_stores_sorted, stdout, stderr, exit_code, main_pc

scan_vars ==
  <<url, fetched, html, start_idx, end_idx, i, brace_count, in_string,
    escape_next, json_str, result, pc>>
norm_vars == <<hours_in, store_data, calls, raised>>
main_vars ==
  <<sitemap, workers, urls, task, future, collected, all_stores, errors,
    all_stores_sorted, stdout, stderr, exit_code, main_pc>>
vars == <<scan_vars, norm_vars, main_vars>>

NotReturned == Returned("running", PyNone)

ScanIdle ==
  /\ url = <<>> /\ fetched = FetchURLError /\ html = <<>>
  /\ start_idx = 0 /\ end_idx = 0 /\ i = 0 /\ brace_count = 0
  /\ in_string = FALSE /\ escape_next = FALSE /\ json_str = <<>>
  /\ result = NotReturned /\ pc = "idle"

NormIdle ==
  /\ hours_in = PyNone /\ store_data = PyNone /\ calls = 0
  /\ raised = FALSE

MainIdle ==
  /\ sitemap = [state |-> "missing"] /\ workers = 0 /\ urls = <<>>
  /\ task = <<>> /\ future = <<>> /\ collected = {} /\ all_stores = <<>>
  /\ errors = <<>> /\ all_stores_sorted = <<>> /\ stdout = <<>>
  /\ stderr = {} /\ exit_code = -1 /\ main_pc = "idle"

(* ------------------------------------------------------------------ *)
(* get_store_details, step by step                                     *)
(* ------------------------------------------------------------------ *)
ScanInit ==
  /\ url = <<"/", "x">> /\ fetched \in ScanFetches /\ html = <<>>
  /\ start_idx = 0 /\ end_idx = 0 /\ i = 0 /\ brace_count = 0
  /\ in_string = FALSE /\ escape_next = FALSE /\ json_str = <<>>
  /\ result = NotReturned /\ pc = "fetch"
  /\ NormIdle /\ MainIdle

\* Lines 33-34 and, where the fetch raises, lines 107-109 or 113-115.
Fetch ==
  /\ pc = "fetch"
  /\ IF fetched.t = "ok"
     THEN /\ html' = fetched.html /\ pc' = "locate" /\ UNCHANGED result
     ELSE /\ result' = Returned(fetched.t, PyNone) /\ pc' = "returned"
          /\ UNCHANGED html
  /\ UNCHANGED <<url, fetched, start_idx, end_idx, i, brace_count,
                 in_string, escape_next, json_str>>
  /\ UNCHANGED <<norm_vars, main_vars>>

\* Lines 37-55.
LocateMarker ==
  /\ pc = "locate"
  /\ LET loc == Locate(html)
     IN IF loc.branch = "none"
        THEN /\ result' = Returned("no_marker", PyNone)
             /\ pc' = "returned"
             /\ start_idx' = -1
             /\ UNCHANGED <<end_idx, i, brace_count, in_string, escape_next>>
        ELSE /\ start_idx' = loc.start_idx
             /\ end_idx' = loc.end_idx
             /\ i' = loc.start_idx
             /\ brace_count' = 0 /\ in_string' = FALSE
             /\ escape_next' = FALSE
             /\ pc' = IF loc.branch = "primary" THEN "scan" ELSE "slice"
             /\ UNCHANGED result
  /\ UNCHANGED <<url, fetched, html, json_str>>
  /\ UNCHANGED <<norm_vars, main_vars>>

\* Lines 57-77: one iteration, on the character at index i.
ScanStep ==
  /\ pc = "scan" /\ i < Len(html)
  /\ LET sc == ScanChar([brace_count |-> brace_count,
                         in_string |-> in_string,
                         escape_next |-> escape_next,
                         end_idx |-> end_idx, broke |-> FALSE],
                        i, html[i + 1])
     IN /\ brace_count' = sc.brace_count
        /\ in_string' = sc.in_string
        /\ escape_next' = sc.escape_next
        /\ end_idx' = sc.end_idx
        /\ IF sc.broke THEN pc' = "slice" /\ UNCHANGED i
           ELSE pc' = "scan" /\ i' = i + 1
  /\ UNCHANGED <<url, fetched, html, start_idx, json_str, result>>
  /\ UNCHANGED <<norm_vars, main_vars>>

\* Line 57: the text is used up and the loop ends without break.
ScanExhausted ==
  /\ pc = "scan" /\ i >= Len(html)
  /\ pc' = "slice"
  /\ UNCHANGED <<url, fetched, html, start_idx, end_idx, i, brace_count,
                 in_string, escape_next, json_str, result>>
  /\ UNCHANGED <<norm_vars, main_vars>>

\* Line 79.
SliceCandidate ==
  /\ pc = "slice"
  /\ json_str' = PySlice(html, start_idx, end_idx)
  /\ pc' = "parse"
  /\ UNCHANGED <<url, fetched, html, start_idx, end_idx, i, brace_count,
                 in_string, escape_next, result>>
  /\ UNCHANGED <<norm_vars, main_vars>>

\* Lines 80-105 and the handlers of lines 110-115.
ParseAndBuild ==
  /\ pc = "parse"
  /\ result' = ExtractRecord(url, json_str)
  /\ pc' = "returned"
  /\ UNCHANGED <<url, fetched, html, start_idx, end_idx, i, brace_count,
                 in_string, escape_next, json_str>>
  /\ UNCHANGED <<norm_vars, main_vars>>

ScanNext ==
  \/ Fetch \/ LocateMarker \/ ScanStep \/ ScanExhausted
  \/ SliceCandidate \/ ParseAndBuild

SpecScan == ScanInit /\ [][ScanNext]_vars

(* ------------------------------------------------------------------ *)
(* sort_trading_hours on one record                                    *)
(* ------------------------------------------------------------------ *)
NormInit ==
  /\ hours_in \in HoursValues
  /\ store_data =
       PyDict(StoreData(LocationOf(PyStr(<<"1", "0">>), <<"A">>, hours_in).v,
                        <<"/", "x">>))
  /\ calls = 0 /\ raised = FALSE
  /\ ScanIdle /\ MainIdle

\* Lines 117-133: one call on the record, which the call changes in place.
SortCall ==
  /\ calls < 2 /\ ~raised
  /\ LET r == SortTradingHours(store_data)
     IN IF r.ok THEN store_data' = r.val /\ UNCHANGED raised
        ELSE raised' = TRUE /\ UNCHANGED store_data
  /\ calls' = calls + 1
  /\ UNCHANGED <<hours_in, scan_vars, main_vars>>

NormNext == SortCall

SpecNorm == NormInit /\ [][NormNext]_vars

(* ------------------------------------------------------------------ *)
(* main                                                                *)
(* ------------------------------------------------------------------ *)
MainInit ==
  /\ sitemap \in SitemapFiles
  /\ workers \in 0..MaxWorkers
  /\ urls = <<>> /\ task = <<>> /\ future = <<>> /\ collected = {}
  /\ all_stores = <<>> /\ errors = <<>> /\ all_stores_sorted = <<>>
  /\ stdout = <<>> /\ stderr = {} /\ exit_code = -1
  /\ main_pc = "check"
  /\ ScanIdle /\ NormIdle

\* Lines 145-147.
CheckSitemap ==
  /\ main_pc = "check"
  /\ IF sitemap.state = "missing"
     THEN /\ stderr' = stderr \cup {"sitemap not found"}
          /\ exit_code' = 1 /\ main_pc' = "exited"
     ELSE /\ main_pc' = "read" /\ UNCHANGED <<stderr, exit_code>>
  /\ UNCHANGED <<sitemap, workers, urls, task, future, collected,
                 all_stores, errors, all_stores_sorted, stdout>>
  /\ UNCHANGED <<scan_vars, norm_vars>>

\* Line 149 and extract_urls_from_sitemap (lines 14-25).
ReadSitemap ==
  /\ main_pc = "read"
  /\ IF sitemap.state = "ok"
     THEN urls' = sitemap.locs /\ UNCHANGED stderr
     ELSE urls' = <<>> /\ stderr' = stderr \cup {"error parsing sitemap"}
  /\ main_pc' = "pool"
  /\ UNCHANGED <<sitemap, workers, task, future, collected, all_stores,
                 errors, all_stores_sorted, stdout, exit_code>>
  /\ UNCHANGED <<scan_vars, norm_vars>>

\* Lines 154-163: the executor is made and every URL submitted.
\* ThreadPoolExecutor raises ValueError for max_workers <= 0, which nothing
\* catches.
OpenPool ==
  /\ main_pc = "pool"
  /\ IF workers <= 0
     THEN /\ stderr' = stderr \cup {"traceback"}
          /\ exit_code' = 1 /\ main_pc' = "exited"
          /\ UNCHANGED <<task, future>>
     ELSE /\ task' = [n \in 1..Len(urls) |-> "queued"]
          /\ future' = [n \in 1..Len(urls) |-> NotReturned]
          /\ main_pc' = "collect"
          /\ UNCHANGED <<stderr, exit_code>>
  /\ UNCHANGED <<sitemap, workers, urls, collected, all_stores, errors,
                 all_stores_sorted, stdout>>
  /\ UNCHANGED <<scan_vars, norm_vars>>

Running == {n \in DOMAIN task : task[n] = "running"}

\* TaskStart with a thread for every submitted task: no limit on the tasks
\* that run at once.
TaskStart_Unbounded(n) ==
  /\ main_pc = "collect"
  /\ task[n] = "queued"
  /\ \A m \in 1..(n - 1) : task[m] # "queued"
  /\ task' = [task EXCEPT ![n] = "running"]
  /\ UNCHANGED <<sitemap, workers, urls, future, collected, all_stores,
                 errors, all_stores_sorted, stdout, stderr, exit_code,
                 main_pc>>
  /\ UNCHANGED <<scan_vars, norm_vars>>

\* A worker thread takes the oldest queued task (line 161).
TaskStart(n) ==
  /\ main_pc = "collect"
  /\ task[n] = "queued"
  /\ \A m \in 1..(n - 1) : task[m] # "queued"
  /\ Cardinality(Running) < workers
  /\ task' = [task EXCEPT ![n] = "running"]
  /\ UNCHANGED <<sitemap, workers, urls, future, collected, all_stores,
                 errors, all_stores_sorted, stdout, stderr, exit_code,
                 main_pc>>
  /\ UNCHANGED <<scan_vars, norm_vars>>

\* TaskFinish with the failure recorded by the worker thread itself: the
\* task appends to errors when its call returns None.
TaskFinish_WritesErrors(n) ==
  /\ main_pc = "collect"
  /\ task[n] = "running"
  /\ task' = [task EXCEPT ![n] = "finished"]
  /\ future' = [future EXCEPT ![n] = GetStoreDetails(urls[n], Web(urls[n]))]
  /\ errors' = IF GetStoreDetails(urls[n], Web(urls[n])).val = PyNone
               THEN Append(errors, <<n, urls[n]>>) ELSE errors
  /\ UNCHANGED <<sitemap, workers, urls, collected, all_stores,
                 all_stores_sorted, stdout, stderr, exit_code, main_pc>>
  /\ UNCHANGED <<scan_vars, norm_vars>>

\* get_store_details(url) returns in its worker thread.
TaskFinish(n) ==
  /\ main_pc = "collect"
  /\ task[n] = "running"
  /\ task' = [task EXCEPT ![n] = "finished"]
  /\ future' = [future EXCEPT ![n] = GetStoreDetails(urls[n], Web(urls[n]))]
  /\ UNCHANGED <<sitemap, workers, urls, collected, all_stores, errors,
                 all_stores_sorted, stdout, stderr, exit_code, main_pc>>
  /\ UNCHANGED <<scan_vars, norm_vars>>

\* Collect without line 181: a record whose normalization raises is
\* recorded nowhere.
Collect_DropOnRaise(n) ==
  /\ main_pc = "collect"
  /\ task[n] = "finished" /\ n \notin collected
  /\ collected' = collected \cup {n}
  /\ IF Truthy(future[n].val)
     THEN LET r == SortTradingHours(future[n].val)
          IN IF r.ok
             THEN /\ all_stores' = Append(all_stores, r.val)
                  /\ UNCHANGED errors
             ELSE UNCHANGED <<all_stores, errors>>
     ELSE /\ errors' = Append(errors, <<n, urls[n]>>)
          /\ UNCHANGED all_stores
  /\ UNCHANGED <<sitemap, workers, urls, task, future, all_stores_sorted,
                 stdout, stderr, exit_code, main_pc>>
  /\ UNCHANGED <<scan_vars, norm_vars>>

\* Collect without the try of lines 168-182: an exception of the loop body
\* ends the run.
Collect_Uncaught(n) ==
  /\ main_pc = "collect"
  /\ task[n] = "finished" /\ n \notin collected
  /\ collected' = collected \cup {n}
  /\ IF Truthy(future[n].val)
     THEN LET r == SortTradingHours(future[n].val)
          IN IF r.ok
             THEN /\ all_stores' = Append(all_stores, r.val)
                  /\ UNCHANGED <<errors, stderr, exit_code, main_pc>>
             ELSE /\ stderr' = stderr \cup {"traceback"}
                  /\ exit_code' = 1 /\ main_pc' = "exited"
                  /\ UNCHANGED <<all_stores, errors>>
     ELSE /\ errors' = Append(errors, <<n, urls[n]>>)
          /\ UNCHANGED <<all_stores, stderr, exit_code, main_pc>>
  /\ UNCHANGED <<sitemap, workers, urls, task, future, all_stores_sorted,
                 stdout>>
  /\ UNCHANGED <<scan_vars, norm_vars>>

\* Collect with the append of line 172 before the call of line 171: a record
\* whose normalization raises is already in all_stores, as it was fetched.
Collect_AppendBeforeSort(n) ==
  /\ main_pc = "collect"
  /\ task[n] = "finished" /\ n \notin collected
  /\ collected' = collected \cup {n}
  /\ IF Truthy(future[n].val)
     THEN LET r == SortTradingHours(future[n].val)
          IN IF r.ok
             THEN /\ all_stores' = Append(all_stores, r.val)
                  /\ UNCHANGED errors
             ELSE /\ all_stores' = Append(all_stores, future[n].val)
                  /\ errors' = Append(errors, <<n, urls[n]>>)
     ELSE /\ errors' = Append(errors, <<n, urls[n]>>)
          /\ UNCHANGED all_stores
  /\ UNCHANGED <<sitemap, workers, urls, task, future, all_stores_sorted,
                 stdout, stderr, exit_code, main_pc>>
  /\ UNCHANGED <<scan_vars, norm_vars>>

\* Lines 166-182: as_completed yields a finished future and the loop body
\* runs on it.
Collect(n) ==
  /\ main_pc = "collect"
  /\ task[n] = "finished" /\ n \notin collected
  /\ collected' = collected \cup {n}
  /\ IF Truthy(future[n].val)
     THEN LET r == SortTradingHours(future[n].val)
          IN IF r.ok
             THEN /\ all_stores' = Append(all_stores, r.val)
                  /\ UNCHANGED errors
             ELSE /\ errors' = Append(errors, <<n, urls[n]>>)
                  /\ UNCHANGED all_stores
     ELSE /\ errors' = Append(errors, <<n, urls[n]>>)
          /\ UNCHANGED all_stores
  /\ UNCHANGED <<sitemap, workers, urls, task, future, all_stores_sorted,
                 stdout, stderr, exit_code, main_pc>>
  /\ UNCHANGED <<scan_vars, norm_vars>>

\* Lines 166 and 183: every future has been yielded and the pool closes.
ClosePool ==
  /\ main_pc = "collect"
  /\ collected = DOMAIN task
  /\ main_pc' = "summary"
  /\ UNCHANGED <<sitemap, workers, urls, task, future, collected,
                 all_stores, errors, all_stores_sorted, stdout, stderr,
                 exit_code>>
  /\ UNCHANGED <<scan_vars, norm_vars>>

\* Lines 185-189.
Summary ==
  /\ main_pc = "summary"
  /\ stderr' = stderr \cup {"summary"}
               \cup (IF errors # <<>> THEN {"failed list"} ELSE {})
  /\ main_pc' = "sort"
  /\ UNCHANGED <<sitemap, workers, urls, task, future, collected,
                 all_stores, errors, all_stores_sorted, stdout, exit_code>>
  /\ UNCHANGED <<scan_vars, norm_vars>>

\* The key of line 191: x.get('locationId', '').
LocationKey(x) == DictGet(x.v, s_locationId, PyStr(<<>>))

\* SortStores without the sort: the records go out in collection order.
SortStores_NoSort ==
  /\ main_pc = "sort"
  /\ all_stores_sorted' = all_stores /\ main_pc' = "print"
  /\ UNCHANGED <<stderr, exit_code>>
  /\ UNCHANGED <<sitemap, workers, urls, task, future, collected,
                 all_stores, errors, stdout>>
  /\ UNCHANGED <<scan_vars, norm_vars>>

\* Line 191; a TypeError of sorted is caught by nothing.
SortStores ==
  /\ main_pc = "sort"
  /\ LET r == PySorted(all_stores,
                       [n \in 1..Len(all_stores) |->
                          LocationKey(all_stores[n])])
     IN IF r.ok
        THEN /\ all_stores_sorted' = r.val /\ main_pc' = "print"
             /\ UNCHANGED <<stderr, exit_code>>
        ELSE /\ stderr' = stderr \cup {"traceback"}
             /\ exit_code' = 1 /\ main_pc' = "exited"
             /\ UNCHANGED all_stores_sorted
  /\ UNCHANGED <<sitemap, workers, urls, task, future, collected,
                 all_stores, errors, stdout>>
  /\ UNCHANGED <<scan_vars, norm_vars>>

\* Line 192, and the return of main: stdout holds the array printed.
PrintJson ==
  /\ main_pc = "print"
  /\ stdout' = Append(stdout, PyList(all_stores_sorted))
  /\ exit_code' = 0 /\ main_pc' = "exited"
  /\ UNCHANGED <<sitemap, workers, urls, task, future, collected,
                 all_stores, errors, all_stores_sorted, stderr>>
  /\ UNCHANGED <<scan_vars, norm_vars>>

Next ==
  \/ CheckSitemap \/ ReadSitemap \/ OpenPool
  \/ \E n \in DOMAIN task : TaskStart(n) \/ TaskFinish(n) \/ Collect(n)
  \/ ClosePool \/ Summary \/ SortStores \/ PrintJson

Spec == MainInit /\ [][Next]_vars

(* ------------------------------------------------------------------ *)
(* Properties of the extraction (SpecScan)                             *)
(* ------------------------------------------------------------------ *)
Contains(text, sub) ==
  \E k \in 1..(Len(text) - Len(sub) + 1) :
    SubSeq(text, k, k + Len(sub) - 1) = sub

\* The text after the first occurrence of the primary marker.
AfterPrimary(text) ==
  LET k == SetMin({j \in 1..(Len(text) - Len(primary_marker) + 1) :
                     SubSeq(text, j, j + Len(primary_marker) - 1)
                       = primary_marker})
  IN SubSeq(text, k + Len(primary_marker), Len(text))

\* The lengths of the prefixes of text that json.loads reads as an object.
ObjectLengths(text) ==
  {n \in 1..Len(text) :
     LET r == JsonLoads(SubSeq(text, 1, n))
     IN r.ok /\ r.val.t = "dict"}

\* C1: when the primary marker is immediately followed by a well-formed
\* JSON object (strings holding braces, escaped quotes and escaped
\* backslashes included), the candidate the brace scan selects is exactly
\* that object: from the character after the marker through the brace that
\* closes the object.
C1_ScanSelectsObject ==
  (pc \in {"parse", "returned"} /\ fetched.t = "ok"
   /\ Contains(html, primary_marker)
   /\ ObjectLengths(AfterPrimary(html)) # {})
  => json_str = SubSeq(AfterPrimary(html), 1,
                       SetMin(ObjectLengths(AfterPrimary(html))))

\* C1's case: the object of the spec's example, with a brace and an escaped
\* quote inside a string, followed by more text, has been selected.
C1_Witness ==
  /\ pc = "returned"
  /\ json_str = NestedExample
  /\ AfterPrimary(html) = NestedExample \o <<Quote, "}">>

\* The text after the marker is an object cut off before its end.
CutOffTexts == UNION {Prefixes(o) \ {o} : o \in ObjectTexts}
CutOffObject(text) == text \in CutOffTexts

\* The loop of line 57 has ended without break.
LoopExhausted ==
  /\ pc \in {"slice", "parse", "returned"}
  /\ Contains(html, primary_marker)
  /\ i >= Len(html)

C3_NoMarkerReturnsNone ==
  (fetched.t = "ok" /\ ~Contains(fetched.html, primary_marker)
   /\ ~Contains(fetched.html, alternate_marker))
  => /\ pc \in {"fetch", "locate", "returned"}
     /\ (pc = "returned" => result = Returned("no_marker", PyNone))

\* C3's case: a text that holds the quoted name but neither marker.
C3_Witness ==
  /\ pc = "returned"
  /\ result.via = "no_marker"
  /\ Contains(html, SubSeq(primary_marker, 1, Len(primary_marker) - 1))
  /\ Contains(html, <<"{", "}">>)

\* The positions from k on at which sub occurs in text.
Occurrences(text, sub, k) ==
  {j \in k..(Len(text) - Len(sub) + 1) :
     SubSeq(text, j, j + Len(sub) - 1) = sub}

\* The text between the first '>' after the first alternate marker and the
\* next '</script>' after it; no text where either is missing.
Between(text) ==
  LET a == SetMin(Occurrences(text, alternate_marker, 1))
      gs == Occurrences(text, <<">">>, a + Len(alternate_marker))
  IN IF gs = {} THEN <<>>
     ELSE
       LET cs == Occurrences(text, script_close, SetMin(gs) + 1)
       IN IF cs = {} THEN <<>>
          ELSE SubSeq(text, SetMin(gs) + 1, SetMin(cs) - 1)

\* C15 as stated: the brace scan runs on every text that holds the primary
\* marker, also when it holds the alternate one; on a text that holds only
\* the alternate marker the candidate is the text between the first '>'
\* after the marker and the next '</script>' after it, and where no '>' or
\* no '</script>' follows there is no such text and the candidate is empty.
C15_AlternateCandidate ==
  /\ (fetched.t = "ok" /\ Contains(fetched.html, primary_marker)
      /\ pc \in {"scan", "slice", "parse", "returned"})
       => start_idx = Len(html) - Len(AfterPrimary(html))
  /\ pc = "scan" => Contains(html, primary_marker)
  /\ (fetched.t = "ok" /\ ~Contains(fetched.html, primary_marker)
      /\ Contains(fetched.html, alternate_marker)
      /\ pc \in {"parse", "returned"})
       => json_str = Between(html)

\* C19: in an iteration of the brace scan, a set escape flag is cleared and
\* the character changes neither the in-string flag nor the depth; with
\* the flag clear, a backslash sets it and changes nothing else, no other
\* character sets it, a quote inverts the in-string flag, and a brace
\* changes the depth, by one, only while the in-string flag is false.
C19_EscapeOneCharacter ==
  [][(pc = "scan" /\ i < Len(html)) =>
       LET char == html[i + 1]
       IN /\ escape_next =>
               (~escape_next' /\ in_string' = in_string
                /\ brace_count' = brace_count /\ end_idx' = end_idx
                /\ pc' = "scan")
          /\ (~escape_next /\ char = Backslash) =>
               (escape_next' /\ in_string' = in_string
                /\ brace_count' = brace_count)
          /\ (~escape_next /\ char # Backslash) => ~escape_next'
          /\ (~escape_next /\ char = Quote) =>
               (in_string' = ~in_string /\ brace_count' = brace_count)
          /\ (~escape_next /\ char \notin {Backslash, Quote}) =>
               in_string' = in_string
          /\ in_string => (brace_count' = brace_count /\ pc' = "scan")
          /\ (~escape_next /\ ~in_string /\ char = "{") =>
               brace_count' = brace_count + 1
          /\ (~escape_next /\ ~in_string /\ char = "}") =>
               brace_count' = brace_count - 1
          /\ (~escape_next /\ ~in_string /\ char \notin {"{", "}"}) =>
               brace_count' = brace_count]_vars

\* C19's case: the scan has read a string made of an escaped backslash,
\* and the quote after the two backslashes has ended the string.
C19_Witness ==
  /\ pc = "scan" /\ i >= 4
  /\ html[i] = Quote /\ html[i - 1] = Backslash
  /\ html[i - 2] = Backslash /\ html[i - 3] = Quote
  /\ ~in_string /\ ~escape_next /\ brace_count = 1

(* ------------------------------------------------------------------ *)
(* Properties of the record (SpecScan)                                 *)
(* ------------------------------------------------------------------ *)

\* The location object of the candidate text, read off the parsed document.
LocationIn(text) ==
  JsonLoads(text).val.v[s_props].v[s_pageProps].v[s_location].v

\* The source field each key of the record is copied from.
SourceField(k) == IF k = s_typename THEN s___typename ELSE k

s_sourceUrl == <<"s", "o", "u", "r", "c", "e", "U", "r", "l">>

\* C8 as stated: every record returned holds every field of the schema,
\* the URL under the key sourceUrl.
C8_SchemaWithSourceUrl ==
  (pc = "returned" /\ result.via = "store_data")
  => DOMAIN result.val.v = (StoreKeys \ {s_url}) \cup {s_sourceUrl}

\* C8, amended: every record returned holds the thirteen fields
\* locationId .. typename and the URL under the key url; a field the
\* location object lacks is present with the value None, and a field it
\* holds is copied as it is.
C8_FullSchema ==
  (pc = "returned" /\ result.via = "store_data")
  => /\ DOMAIN result.val.v = StoreKeys
     /\ result.val.v[s_url] = PyStr(url)
     /\ \A k \in StoreKeys \ {s_url} :
          result.val.v[k] =
            IF SourceField(k) \in DOMAIN LocationIn(json_str)
            THEN LocationIn(json_str)[SourceField(k)] ELSE PyNone

\* C8's case: a record built from a location that lacks address2 and
\* __typename.
C8_Witness ==
  /\ pc = "returned" /\ result.via = "store_data"
  /\ s_address2 \notin DOMAIN LocationIn(json_str)
  /\ s_address1 \in DOMAIN LocationIn(json_str)
  /\ result.val.v[s_address2] = PyNone
  /\ result.val.v[s_typename] = PyNone

\* Whether a segment of the path props.pageProps.location of the document
\* is absent or is not an object.
PathBroken(doc) ==
  IF doc.t # "dict" \/ s_props \notin DOMAIN doc.v THEN TRUE
  ELSE IF doc.v[s_props].t # "dict"
          \/ s_pageProps \notin DOMAIN doc.v[s_props].v THEN TRUE
  ELSE IF doc.v[s_props].v[s_pageProps].t # "dict"
          \/ s_location \notin DOMAIN doc.v[s_props].v[s_pageProps].v
    THEN TRUE
  ELSE doc.v[s_props].v[s_pageProps].v[s_location].t # "dict"

\* C12: when the candidate parses to a document in which a segment of the
\* path props.pageProps.location is absent or is not an object, the call
\* returns None, by the test of line 85 or by the handler of line 113: no
\* record is produced and the call ends by a return, not by an exception.
C12_BrokenPathIsSkipped ==
  (pc = "returned" /\ fetched.t = "ok" /\ result.via # "no_marker"
   /\ JsonLoads(json_str).ok /\ PathBroken(JsonLoads(json_str).val))
  => /\ result.val = PyNone
     /\ result.via \in {"no_location", "Exception"}

\* C12's case: the location of the document is a list that is not empty, so
\* the test of line 85 lets it through and location.get raises.
C12_Witness ==
  /\ pc = "returned"
  /\ JsonLoads(json_str).ok
  /\ JsonLoads(json_str).val = DocOf(PyList(<<PyInt(1)>>))
  /\ result = Returned("Exception", PyNone)

(* ------------------------------------------------------------------ *)
(* Properties of sort_trading_hours (SpecNorm)                         *)
(* ------------------------------------------------------------------ *)
CanonicalDays ==
  <<s_MONDAY, s_TUESDAY, s_WEDNESDAY, s_THURSDAY, s_FRIDAY, s_SATURDAY,
    s_SUNDAY>>

\* The rank the claim gives an entry: MONDAY 0 .. SUNDAY 6, and 7 for an
\* entry whose weekDay is absent or none of the seven names.
ClaimedRank(x) ==
  IF s_weekDay \in DOMAIN x.v /\ x.v[s_weekDay].t = "str"
     /\ \E n \in 1..7 : CanonicalDays[n] = x.v[s_weekDay].v
  THEN (CHOOSE n \in 1..7 : CanonicalDays[n] = x.v[s_weekDay].v) - 1
  ELSE 7

EntriesOfRank(l, r) ==
  LET HasRank(x) == ClaimedRank(x) = r IN SelectSeq(l, HasRank)

\* C7: after sort_trading_hours the tradingHours entries are in the order
\* of their weekday rank (MONDAY 0 .. SUNDAY 6, any other or absent weekDay
\* 7, so after every canonical entry), and the entries of one rank keep the
\* order they had.
C7_HoursOrdered ==
  (calls >= 1 /\ ~raised /\ Truthy(hours_in))
  => LET out == store_data.v[s_tradingHours].v
     IN /\ \A j, k \in 1..Len(out) :
             j < k => ClaimedRank(out[j]) <= ClaimedRank(out[k])
        /\ \A r \in 0..7 : EntriesOfRank(out, r) = EntriesOfRank(hours_in.v, r)

\* C7's case: an unknown weekday first and two SUNDAY entries after it.
C7_Witness ==
  /\ calls = 1 /\ ~raised
  /\ hours_in =
       PyList(<<HoursEntry(<<"F", "U", "N", "D", "A", "Y">>, 1),
                HoursEntry(s_SUNDAY, 2), HoursEntry(s_SUNDAY, 1)>>)
  /\ store_data.v[s_tradingHours] =
       PyList(<<HoursEntry(s_SUNDAY, 2), HoursEntry(s_SUNDAY, 1),
                HoursEntry(<<"F", "U", "N", "D", "A", "Y">>, 1)>>)

\* C14: a call of sort_trading_hours on a record that has been through it
\* before raises nothing and leaves the record as it is, every field and
\* the tradingHours sequence included, also where weekdays are unknown or
\* repeated.
C14_SecondCallChangesNothing ==
  [][calls = 1 => (store_data' = store_data /\ ~raised')]_vars

\* C14's case: a list with an unknown weekday and SUNDAY twice, reordered by
\* the first call, after the second call.
C14_Witness ==
  /\ calls = 2 /\ ~raised
  /\ hours_in =
       PyList(<<HoursEntry(<<"F", "U", "N", "D", "A", "Y">>, 1),
                HoursEntry(s_SUNDAY, 2), HoursEntry(s_SUNDAY, 1)>>)
  /\ store_data.v[s_tradingHours] =
       PyList(<<HoursEntry(s_SUNDAY, 2), HoursEntry(s_SUNDAY, 1),
                HoursEntry(<<"F", "U", "N", "D", "A", "Y">>, 1)>>)

(* ------------------------------------------------------------------ *)
(* Properties of the batch (Spec)                                      *)
(* ------------------------------------------------------------------ *)
Count(l, x) == Cardinality({j \in DOMAIN l : l[j] = x})

\* The loop of line 166 is over.
CollectionFinished ==
  \/ main_pc \in {"summary", "sort", "print"}
  \/ main_pc = "exited" /\ "summary" \in stderr

Emitted == stdout # <<>>

\* C4: when collection is over every URL is recorded exactly once, as a
\* record of all_stores or as an entry of errors, so the two lengths add up
\* to the number of URLs; and the array printed holds exactly the records
\* of all_stores.
C4_EveryUrlOnce ==
  /\ CollectionFinished =>
       /\ Len(all_stores) + Len(errors) = Len(urls)
       /\ \A n \in 1..Len(urls) :
            Cardinality({j \in DOMAIN errors : errors[j] = <<n, urls[n]>>})
            + Cardinality({j \in DOMAIN all_stores :
                             all_stores[j].v[s_url] = PyStr(urls[n])}) = 1
  /\ Emitted =>
       /\ Len(stdout) = 1
       /\ Len(stdout[1].v) = Len(all_stores)
       /\ \A j \in DOMAIN all_stores :
            Count(stdout[1].v, all_stores[j]) = Count(all_stores, all_stores[j])

\* C4's case: four URLs, some failed and some not, and the array printed.
C4_Witness ==
  /\ Emitted /\ Len(urls) = 4
  /\ Len(errors) >= 1 /\ Len(all_stores) >= 2

\* C5: the array printed is in ascending order of locationId, whatever the
\* order the fetches completed in.
C5_OutputSorted ==
  Emitted =>
    \A j, k \in 1..Len(stdout[1].v) :
      j < k =>
        /\ Comparable(stdout[1].v[j].v[s_locationId],
                      stdout[1].v[k].v[s_locationId])
        /\ ~KeyLt(stdout[1].v[k].v[s_locationId],
                  stdout[1].v[j].v[s_locationId])

\* C5's case: the records were collected in another order than the one
\* printed.
C5_Witness ==
  /\ Emitted /\ Len(all_stores) >= 2
  /\ stdout[1].v # all_stores
  /\ all_stores[1].v[s_locationId] # all_stores[2].v[s_locationId]

\* What the strictly sequential run collects from the first n URLs, each
\* fetched, extracted and normalized before the next.
RECURSIVE SequentialStores(_)
SequentialStores(n) ==
  IF n = 0 THEN <<>>
  ELSE
    LET got == GetStoreDetails(urls[n], Web(urls[n])).val
        r == SortTradingHours(got)
    IN IF Truthy(got) /\ r.ok THEN Append(SequentialStores(n - 1), r.val)
       ELSE SequentialStores(n - 1)

SequentialOutput ==
  LET stores == SequentialStores(Len(urls))
  IN PySorted(stores, [n \in 1..Len(stores) |-> LocationKey(stores[n])]).val

\* C6 as stated: the array printed by the concurrent run is the array the
\* sequential run prints, record for record, also when two records carry
\* the same locationId.
C6_SameAsSequential ==
  Emitted => stdout[1].v = SequentialOutput

FailureExits ==
  {"URLError", "Exception", "no_marker", "JSONDecodeError", "no_location"}

\* C9: an error of one URL (fetch error, no marker, unbalanced braces, JSON
\* syntax error, no location, a normalization that raises) becomes an entry
\* of errors for that URL and never ends the batch: the run leaves the
\* loop only when every URL has been collected.
C9_ErrorsStayPerUrl ==
  /\ main_pc = "collect" => exit_code = -1
  /\ (main_pc \in {"summary", "sort", "print", "exited"} /\ task # <<>>)
       => collected = 1..Len(urls)
  /\ \A n \in collected :
       /\ future[n].via \in FailureExits \cup {"store_data"}
       /\ future[n].via \in FailureExits
            => /\ future[n].val = PyNone
               /\ Count(errors, <<n, urls[n]>>) = 1
       /\ (future[n].via = "store_data"
           /\ ~SortTradingHours(future[n].val).ok)
            => Count(errors, <<n, urls[n]>>) = 1

\* C9's case: a URLError, a missing marker, an unterminated object and a
\* failed normalization, and a record of another URL printed all the same.
C9_Witness ==
  /\ main_pc = "exited" /\ Emitted
  /\ \E a, b, c \in collected :
       /\ future[a].via = "JSONDecodeError"
       /\ future[b].via = "no_location"
       /\ future[c].via = "no_marker"
  /\ Len(stdout[1].v) = 1

\* C10 as stated, for a positive worker count: a run that found the sitemap
\* file ends with the array printed and exit code 0.
C10_AlwaysPrints ==
  (main_pc = "exited" /\ sitemap.state # "missing" /\ workers > 0)
  => (exit_code = 0 /\ Len(stdout) = 1)

(* ------------------------------------------------------------------ *)
(* Properties of the sitemap and of the final order (Spec)             *)
(* ------------------------------------------------------------------ *)

\* C11 as stated: a run whose sitemap file exists but is not well-formed
\* XML ends with a diagnostic and a non-zero exit code, processes no URL
\* and writes nothing to standard output, not even an empty array.
C11_MalformedIsFatal ==
  sitemap.state = "malformed"
  => /\ stdout = <<>>
     /\ task = <<>>
     /\ main_pc = "exited" => (exit_code # 0 /\ exit_code # -1
                               /\ "error parsing sitemap" \in stderr)

\* C13 as stated: a record whose locationId is None is kept in the array
\* printed and stands before every record that has a locationId, so a run
\* that collected such a record still prints every record of all_stores.
C13_MissingIdSortsFirst ==
  (main_pc = "exited" /\ "summary" \in stderr
   /\ \E j \in DOMAIN all_stores : all_stores[j].v[s_locationId] = PyNone)
  => /\ Emitted
     /\ \A j \in DOMAIN all_stores :
          Count(stdout[1].v, all_stores[j]) = Count(all_stores, all_stores[j])
     /\ \A j, k \in 1..Len(stdout[1].v) :
          (j < k /\ stdout[1].v[k].v[s_locationId] = PyNone)
          => stdout[1].v[j].v[s_locationId] = PyNone

(* ------------------------------------------------------------------ *)
(* Properties of the pool and of the collector (Spec)                  *)
(* ------------------------------------------------------------------ *)

\* C16: at every moment the number of URLs whose get_store_details call has
\* started and not yet returned is at most the worker count.
C16_InFlightAtMostWorkers ==
  Cardinality(Running) <= workers

\* C16's case: two workers, both busy, and a submitted URL waiting for one
\* of them.
C16_Witness ==
  /\ workers = 2
  /\ Cardinality(Running) = 2
  /\ \E n \in DOMAIN task : task[n] = "queued"

\* l2 is l with one element appended.
OneAppended(l, l2) ==
  Len(l2) = Len(l) + 1 /\ SubSeq(l2, 1, Len(l)) = l

\* The step is one pass of the collector loop on the future of task n: the
\* future is done and not yet yielded, and one of the two lists gets one
\* element.
CollectorStep(n) ==
  /\ main_pc = "collect"
  /\ task[n] = "finished" /\ n \notin collected
  /\ collected' = collected \cup {n}
  /\ task' = task /\ future' = future
  /\ \/ OneAppended(all_stores, all_stores') /\ errors' = errors
     \/ OneAppended(errors, errors') /\ all_stores' = all_stores

\* C17: all_stores and errors change only in a pass of the collector loop,
\* one element at a time, and never in a step of a worker task; the sort
\* and the output happen only when every task has finished and every
\* future has been collected.
C17_SingleWriterThenRead ==
  /\ [][(all_stores' # all_stores \/ errors' # errors)
          => \E n \in DOMAIN task : CollectorStep(n)]_vars
  /\ []((main_pc \in {"sort", "print"} \/ all_stores_sorted # <<>>
         \/ Emitted)
        => (collected = DOMAIN task /\ Running = {}
            /\ \A n \in DOMAIN task : task[n] = "finished"))

\* C17's case: the collector has written both lists while a worker task is
\* still running.
C17_Witness ==
  /\ main_pc = "collect"
  /\ Running # {}
  /\ Len(all_stores) >= 1 /\ Len(errors) >= 1

\* The record x is the normalized record of a collected URL whose
\* extraction and normalization both succeeded.
FullyProcessed(x) ==
  \E n \in collected :
    /\ future[n].via = "store_data"
    /\ SortTradingHours(future[n].val).ok
    /\ x = SortTradingHours(future[n].val).val

\* The records of the list l that carry the URL u.
WithUrl(l, u) == {j \in DOMAIN l : l[j].v[s_url] = PyStr(u)}

\* C18: a collected URL whose record was fetched but whose normalization
\* raises has one entry in errors and no record in all_stores or in the
\* array printed; every record of all_stores and of the array printed is
\* the normalized record of a URL whose extraction and normalization both
\* succeeded.
C18_NoPartialRecord ==
  /\ \A n \in collected :
       (future[n].via = "store_data" /\ ~SortTradingHours(future[n].val).ok)
       => /\ Count(errors, <<n, urls[n]>>) = 1
          /\ WithUrl(all_stores, urls[n]) = {}
          /\ Emitted => WithUrl(stdout[1].v, urls[n]) = {}
  /\ \A j \in DOMAIN all_stores : FullyProcessed(all_stores[j])
  /\ Emitted => \A j \in DOMAIN stdout[1].v : FullyProcessed(stdout[1].v[j])

\* C18's case: one record whose tradingHours is a string and one whose
\* tradingHours holds an entry that is no object have been fetched and
\* collected, and the array printed holds the record of another URL.
C18_Witness ==
  /\ Emitted /\ Len(stdout[1].v) >= 1
  /\ \E a, b \in collected :
       /\ future[a].via = "store_data" /\ future[b].via = "store_data"
       /\ future[a].val.v[s_tradingHours].t = "str"
       /\ future[b].val.v[s_tradingHours].t = "list"
       /\ ~SortTradingHours(future[b].val).ok
       /\ Count(errors, <<a, urls[a]>>) = 1
       /\ Count(errors, <<b, urls[b]>>) = 1

\* The page of URL u embeds a document whose props.pageProps.location is
\* the empty object.
PageHasEmptyLocation(u) ==
  Web(u) \in {FetchedPage(PrimaryPage(DocOf(PyDict(EmptyDict)))),
              FetchedPage(AlternatePage(DocOf(PyDict(EmptyDict))))}

\* C20: for a page whose location is the empty object, get_store_details
\* returns None by line 86, as for a missing location, and once collected
\* the URL has one entry in errors and no record in all_stores or in the
\* array printed.
C20_EmptyLocationIsFailure ==
  \A n \in DOMAIN task :
    (task[n] = "finished" /\ PageHasEmptyLocation(urls[n]))
    => /\ future[n] = Returned("no_location", PyNone)
       /\ n \in collected =>
            (Count(errors, <<n, urls[n]>>) = 1
             /\ WithUrl(all_stores, urls[n]) = {})
       /\ Emitted => WithUrl(stdout[1].v, urls[n]) = {}

\* C20's case: the URL of such a page has been collected as a failure and
\* the array printed holds the record of another URL.
C20_Witness ==
  /\ Emitted /\ Len(stdout[1].v) >= 1
  /\ \E n \in collected :
       /\ PageHasEmptyLocation(urls[n])
       /\ future[n].via = "no_location"
       /\ Count(errors, <<n, urls[n]>>) = 1

====
